---- MODULE Spec2Model ----
(***************************************************************************)
(* Registration and login backend: the field validators, the user manager, *)
(* the registration and login serializers and the login view.              *)
(*                                                                         *)
(* A string is a sequence of characters; a character is a one-character    *)
(* string, or the code point ("U+018F") of a character outside ASCII.      *)
(***************************************************************************)
EXTENDS Naturals, Sequences, FiniteSets, TLC

VARIABLES
    users,      \* the user table: a set of rows
    nextId,     \* the next primary key of the user table
    refs,       \* the reference tables: table name -> the primary keys it holds
    backend,    \* the authentication backend the deployment configures
    reg,        \* the registration requests in flight, one per worker
    last,       \* the operation that took the last step, with its outcome
    arg,        \* the argument of a validator call
    ret         \* what the validator call returned or raised

vars == <<users, nextId, refs, backend, reg, last, arg, ret>>

\* Python's None where a string may stand: a value that is no string (no
\* character is "\\None"); and None where a list of strings may stand.
None == <<"\\None">>
NoneList == <<None>>

\* ------------------------------------------------------------ characters

AsciiUpper == {"A", "Z", "P", "S", "J", "G", "N"}
AsciiLower == {"a", "z", "b", "d", "f", "g", "i", "j", "n", "o", "p", "r", "s", "t", "w"}
AsciiDigits == {"0", "1", "2", "3", "4", "5", "6", "7", "8", "9"}
\* Decimal digits outside ASCII (category Nd): ARABIC-INDIC DIGIT THREE.
UnicodeDigits == {"U+0663"}
\* The letters of the Azerbaijani alphabet outside ASCII, upper and lower case.
AzUpper == {"U+018F", "U+00D6", "U+011E", "U+00DC", "U+00C7", "U+015E", "U+0130"}
AzLower == {"U+0259", "U+00F6", "U+011F", "U+00FC", "U+00E7", "U+015F", "U+0131"}
\* What \s matches.
Whitespace == {" ", "\t", "\n"}

\* str.lower() on one character: a string, since the lower case of U+0130
\* (capital I with a dot above) is two characters long.
LowerChar(c) ==
    CASE c = "A" -> <<"a">> [] c = "Z" -> <<"z">> [] c = "P" -> <<"p">>
      [] c = "S" -> <<"s">> [] c = "J" -> <<"j">> [] c = "G" -> <<"g">>
      [] c = "N" -> <<"n">>
      [] c = "U+018F" -> <<"U+0259">> [] c = "U+00D6" -> <<"U+00F6">>
      [] c = "U+011E" -> <<"U+011F">> [] c = "U+00DC" -> <<"U+00FC">>
      [] c = "U+00C7" -> <<"U+00E7">> [] c = "U+015E" -> <<"U+015F">>
      [] c = "U+0130" -> <<"i", "U+0307">>
      [] OTHER -> <<c>>

RECURSIVE lower(_)
lower(s) == IF s = <<>> THEN <<>> ELSE LowerChar(Head(s)) \o lower(Tail(s))

\* re.search(r'[...]', s): some character of s is in the class.
Search(class, s) == \E i \in 1..Len(s) : s[i] \in class

\* re.fullmatch(r'[...]+', s): s is not empty and all of it is in the class.
FullMatchPlus(class, s) == Len(s) >= 1 /\ \A i \in 1..Len(s) : s[i] \in class

\* n copies of the character c.
Repeat(c, n) == [i \in 1..n |-> c]

\* The strings over chars of length at most n.
StringsUpTo(chars, n) == UNION {[1..k -> chars] : k \in 0..n}

\* ------------------------------------------------------------ validators

LettersClass == AsciiUpper \cup AsciiLower \cup AzUpper \cup AzLower

\* RegexValidator(regex): the value is valid when regex.search finds a match.
azerbaijani_letters_validator(value) == FullMatchPlus(LettersClass, value)

MobileDigits == 9

MobileRegexDigits == AsciiDigits \cup UnicodeDigits

\* ^\d{9}$ under re.search: \d is any decimal digit, and $ also matches just
\* before a newline that ends the string.
mobile_number_validator(value) ==
    \/ /\ Len(value) = MobileDigits
       /\ \A i \in 1..MobileDigits : value[i] \in MobileRegexDigits
    \/ /\ Len(value) = MobileDigits + 1
       /\ \A i \in 1..MobileDigits : value[i] \in MobileRegexDigits
       /\ value[MobileDigits + 1] = "\n"

MinPasswordLen == 8
MaxPasswordLen == 15

PasswordSymbols ==
    {"!", "@", "#", "$", "%", "^", "&", "*", "(", ")", ",", ".", "?", "\"",
     ":", "{", "}", "|", "<", ">"}

\* What a call returns (ok, with the value) or raises (err, on the item named).
ok(v) == [ok |-> TRUE, val |-> v, err |-> "", on |-> None]
raise(e, item) == [ok |-> FALSE, val |-> None, err |-> e, on |-> item]
NotCalled == [ok |-> FALSE, val |-> None, err |-> "not called", on |-> None]

\* A slip in the length check: a password of 15 characters is refused.
validate_password_strength_short(password) ==
    IF ~(MinPasswordLen <= Len(password) /\ Len(password) < MaxPasswordLen)
    THEN raise("ValidationError:length", None)
    ELSE IF ~Search(AsciiUpper, password)
    THEN raise("ValidationError:uppercase", None)
    ELSE IF ~Search(AsciiDigits, password)
    THEN raise("ValidationError:digit", None)
    ELSE IF ~Search(PasswordSymbols, password)
    THEN raise("ValidationError:symbol", None)
    ELSE ok(None)

\* The first check that fails raises; without one the function returns None.
validate_password_strength(password) ==
    IF ~(MinPasswordLen <= Len(password) /\ Len(password) <= MaxPasswordLen)
    THEN raise("ValidationError:length", None)
    ELSE IF ~Search(AsciiUpper, password)
    THEN raise("ValidationError:uppercase", None)
    ELSE IF ~Search(AsciiDigits, password)
    THEN raise("ValidationError:digit", None)
    ELSE IF ~Search(PasswordSymbols, password)
    THEN raise("ValidationError:symbol", None)
    ELSE ok(None)

\* values.get(key): None when the key is absent.
get(values, key) == IF key \in DOMAIN values THEN values[key] ELSE None

\* "not v" for an optional string.
falsy(v) == v = None \/ v = <<>>

SENTINEL == <<"Y", "o", "x", "d", "u", "r">>

\* [A-Za-z...\s\-]: the letters, white space and the hyphen.
MajorClass == LettersClass \cup Whitespace \cup {"-"}

\* values holds the fields validated before this one; education is missing from
\* it when its own validator rejected it.
validate_education_major(v, values) ==
    LET education == get(values, "education") IN
    IF education # SENTINEL
    THEN IF falsy(v) THEN raise("ValueError:required", None)
         ELSE IF ~FullMatchPlus(MajorClass, v)
         THEN raise("ValueError:alphabet", None)
         ELSE ok(v)
    ELSE ok(v)

ALLOWED_IMAGE_EXTENSIONS == {<<".", "j", "p", "g">>, <<".", "p", "n", "g">>}

\* The highest index of character c in p, 0 when p has none.
rfind(p, c) ==
    LET at == {i \in 1..Len(p) : p[i] = c} IN
    IF at = {} THEN 0 ELSE CHOOSE i \in at : \A j \in at : j <= i

\* os.path.splitext(p)[1]: from the last dot of the last path component, when a
\* character other than a dot comes before it in that component; else empty.
splitext_ext(p) ==
    LET sepIndex == rfind(p, "/")
        dotIndex == rfind(p, ".")
    IN  IF /\ dotIndex > sepIndex
           /\ \E k \in (sepIndex + 1)..(dotIndex - 1) : p[k] # "."
        THEN SubSeq(p, dotIndex, Len(p))
        ELSE <<>>

MaxPortfolio == 10

\* The files of v that the extension check rejects, by index.
BadImages(v) ==
    {i \in 1..Len(v) : splitext_ext(lower(v[i])) \notin ALLOWED_IMAGE_EXTENSIONS}

\* A slip in the extension check: the file name is not lower-cased.
validate_portfolio_images_cased(v) ==
    LET bad == {i \in 1..Len(v) :
                   splitext_ext(v[i]) \notin ALLOWED_IMAGE_EXTENSIONS}
    IN
    IF v # NoneList /\ v # <<>>
    THEN IF Len(v) > MaxPortfolio THEN raise("ValueError:too_many", None)
         ELSE IF bad # {}
              THEN raise("ValueError:format",
                         v[CHOOSE i \in bad : \A j \in bad : i <= j])
              ELSE ok(v)
    ELSE ok(v)

validate_portfolio_images(v) ==
    IF v # NoneList /\ v # <<>>
    THEN IF Len(v) > MaxPortfolio THEN raise("ValueError:too_many", None)
         ELSE IF BadImages(v) # {}
              THEN LET first == CHOOSE i \in BadImages(v) :
                                    \A j \in BadImages(v) : i <= j
                   IN  raise("ValueError:format", v[first])
              ELSE ok(v)
    ELSE ok(v)

\* ------------------------------------------------------------ the user table

\* make_password: an unusable credential for None, else a salted hash, which
\* verifies against the password it was made of and against no other.
make_password(password) ==
    IF password = None THEN [kind |-> "unusable", of |-> None]
    ELSE [kind |-> "hash", of |-> password]

\* The password column of a row written before set_password: the empty string.
UnsetPassword == [kind |-> "unset", of |-> None]

check_password(password, encoded) ==
    encoded.kind = "hash" /\ encoded.of = password

\* dict.setdefault(key, value) on the keyword arguments.
setdefault(fields, key, value) ==
    IF key \in DOMAIN fields THEN fields ELSE (key :> value) @@ fields

\* self.model(mobile_number=..., **extra_fields): a new instance, with the
\* defaults of the fields the caller does not give.
NewUser(mobile_number, extra_fields) ==
    LET f == setdefault(setdefault(setdefault(extra_fields,
                 "is_active", TRUE), "is_staff", FALSE), "is_superuser", FALSE)
    IN  [id |-> 0, mobile_number |-> mobile_number, password |-> UnsetPassword,
         is_active |-> f["is_active"], is_staff |-> f["is_staff"],
         is_superuser |-> f["is_superuser"],
         cities |-> {}, languages |-> {}, work_images |-> {}]

\* The field without unique=True: no row is refused.
UniqueViolation_off(table, mobile_number) == FALSE

\* unique=True: the table refuses a second row with a stored mobile_number.
UniqueViolation(table, mobile_number) ==
    \E u \in table : u.mobile_number = mobile_number

\* save() of a new instance: one INSERT, under the unique constraint.
Insert(table, id, row) ==
    IF UniqueViolation(table, row.mobile_number)
    THEN [out |-> "IntegrityError:unique", table |-> table, uid |-> 0]
    ELSE [out |-> "saved", table |-> table \cup {[row EXCEPT !.id = id]},
          uid |-> id]

\* save() of a stored instance: one UPDATE of the row with its primary key.
Update(table, row) == {u \in table : u.id # row.id} \cup {row}

Row(table, id) == CHOOSE u \in table : u.id = id

\* A slip in the order: the user is saved before the password is validated.
create_user_save_first(table, id, mobile_number, password, extra_fields) ==
    IF falsy(mobile_number)
    THEN [out |-> "ValueError", table |-> table, uid |-> 0]
    ELSE LET user == NewUser(mobile_number, extra_fields)
             r == Insert(table, id,
                         [user EXCEPT !.password = make_password(password)])
         IN  IF ~falsy(password) /\ ~validate_password_strength(password).ok
             THEN [out |-> validate_password_strength(password).err,
                   table |-> r.table, uid |-> 0]
             ELSE r

create_user(table, id, mobile_number, password, extra_fields) ==
    IF falsy(mobile_number)
    THEN [out |-> "ValueError", table |-> table, uid |-> 0]
    ELSE IF ~falsy(password) /\ ~validate_password_strength(password).ok
    THEN [out |-> validate_password_strength(password).err, table |-> table,
          uid |-> 0]
    ELSE LET user == NewUser(mobile_number, extra_fields) IN
         Insert(table, id, [user EXCEPT !.password = make_password(password)])

create_superuser(table, id, mobile_number, password, extra_fields) ==
    create_user(table, id, mobile_number, password,
                setdefault(setdefault(extra_fields, "is_staff", TRUE),
                           "is_superuser", TRUE))

\* ------------------------------------------------------------ login

Backends == {"ModelBackend", "AllowAllUsersModelBackend"}

\* ModelBackend refuses a user whose is_active is false; AllowAllUsersModelBackend
\* does not look at it.
user_can_authenticate(bk, user) ==
    bk = "AllowAllUsersModelBackend" \/ user.is_active

NoUser == 0

\* authenticate(request, mobile_number=..., password=...): the primary key of the
\* user the backend accepts, NoUser when it accepts none.
authenticate(table, bk, mobile_number, password) ==
    LET found == {u \in table : u.mobile_number = mobile_number} IN
    IF found = {} THEN NoUser
    ELSE LET user == CHOOSE u \in found : TRUE IN
         IF check_password(password, user.password) /\ user_can_authenticate(bk, user)
         THEN user.id
         ELSE NoUser

\* CharField(required=True) on both fields: a blank value is a field error, and
\* validate() runs only when no field has one.
LoginFieldErrors(mobile_number, password) ==
    (IF mobile_number = <<>> THEN {<<"mobile_number", "blank">>} ELSE {})
    \cup (IF password = <<>> THEN {<<"password", "blank">>} ELSE {})

\* A slip in the order: is_active of the user with that number is checked
\* before the password is verified.
LoginSerializer_validate_active_first(table, bk, mobile_number, password) ==
    IF falsy(mobile_number) \/ falsy(password)
    THEN [errors |-> {<<"non_field_errors", "required">>}, user |-> NoUser]
    ELSE IF \E u \in table : u.mobile_number = mobile_number /\ ~u.is_active
    THEN [errors |-> {<<"non_field_errors", "account deactivated">>},
          user |-> NoUser]
    ELSE LET user == authenticate(table, bk, mobile_number, password) IN
         IF user = NoUser
         THEN [errors |-> {<<"non_field_errors", "wrong number or password">>},
               user |-> NoUser]
         ELSE [errors |-> {}, user |-> user]

\* LoginSerializer.validate: the errors, and the user put in validated_data.
LoginSerializer_validate(table, bk, mobile_number, password) ==
    IF falsy(mobile_number) \/ falsy(password)
    THEN [errors |-> {<<"non_field_errors", "required">>}, user |-> NoUser]
    ELSE LET user == authenticate(table, bk, mobile_number, password) IN
         IF user = NoUser
         THEN [errors |-> {<<"non_field_errors", "wrong number or password">>},
               user |-> NoUser]
         ELSE IF ~Row(table, user).is_active
         THEN [errors |-> {<<"non_field_errors", "account deactivated">>},
               user |-> NoUser]
         ELSE [errors |-> {}, user |-> user]

\* serializer.is_valid(): the field errors, or else what validate() finds.
LoginSerializer_is_valid(table, bk, mobile_number, password) ==
    IF LoginFieldErrors(mobile_number, password) # {}
    THEN [errors |-> LoginFieldErrors(mobile_number, password), user |-> NoUser]
    ELSE LoginSerializer_validate(table, bk, mobile_number, password)

\* LoginView.post: 200 with the user and a token pair minted for it, or 400 with
\* the serializer's errors. tokens is the user the pair is for, NoUser for none.
LoginView_post(table, bk, mobile_number, password) ==
    LET serializer == LoginSerializer_is_valid(table, bk, mobile_number, password) IN
    IF serializer.errors = {}
    THEN [status |-> 200, user |-> serializer.user, tokens |-> serializer.user,
          errors |-> {}]
    ELSE [status |-> 400, user |-> NoUser, tokens |-> NoUser,
          errors |-> serializer.errors]

\* ------------------------------------------------------------ registration

Tables == {"City", "Language", "WorkImage"}

MinRegisterPasswordLen == 8

\* The field checks of RegisterSerializer: the model field's validators and its
\* unique constraint on mobile_number, min_length on the passwords, and a stored
\* row for every primary key of the related fields.
RegisterFieldErrors(table, rows, data) ==
    (IF ~mobile_number_validator(data.mobile_number)
     THEN {<<"mobile_number", "invalid">>} ELSE {})
    \cup (IF Len(data.mobile_number) > MobileDigits
          THEN {<<"mobile_number", "max_length">>} ELSE {})
    \cup (IF UniqueViolation(table, data.mobile_number)
          THEN {<<"mobile_number", "unique">>} ELSE {})
    \cup (IF Len(data.password) < MinRegisterPasswordLen
          THEN {<<"password", "min_length">>} ELSE {})
    \cup (IF Len(data.password2) < MinRegisterPasswordLen
          THEN {<<"password2", "min_length">>} ELSE {})
    \cup (IF ~(data.cities \subseteq rows["City"])
          THEN {<<"cities", "does_not_exist">>} ELSE {})
    \cup (IF ~(data.languages \subseteq rows["Language"])
          THEN {<<"languages", "does_not_exist">>} ELSE {})
    \cup (IF ~(data.work_images \subseteq rows["WorkImage"])
          THEN {<<"work_images", "does_not_exist">>} ELSE {})

\* RegisterSerializer.validate, run when no field has an error.
RegisterSerializer_validate(data) ==
    IF data.password # data.password2 THEN {<<"password", "mismatch">>} ELSE {}

RegisterSerializer_is_valid(table, rows, data) ==
    IF RegisterFieldErrors(table, rows, data) # {}
    THEN RegisterFieldErrors(table, rows, data)
    ELSE RegisterSerializer_validate(data)

\* user.<field>.set(pks): the rows of the association table; the database
\* refuses a row that refers to a primary key the related table does not hold.
SetRelated(table, rows, uid, field, related, pks) ==
    IF pks \subseteq rows[related]
    THEN [out |-> "set",
          table |-> Update(table, [Row(table, uid) EXCEPT ![field] = pks])]
    ELSE [out |-> "IntegrityError:foreign key", table |-> table]

\* Deleting a row of a related table deletes the association rows that refer
\* to it.
DeleteRelated(table, field, pk) ==
    {[u EXCEPT ![field] = u[field] \ {pk}] : u \in table}

\* ------------------------------------------------------------ inputs

MaxUsers == 2
Workers == {1, 2}

M1 == <<"5", "0", "1", "2", "3", "4", "5", "6", "7">>
M2 == <<"5", "5", "1", "2", "3", "4", "5", "6", "7">>
\* Eight digits.
M8 == <<"5", "0", "1", "2", "3", "4", "5", "6">>

PW1 == <<"P", "a", "s", "s", "w", "0", "r", "d", "!">>
PW2 == <<"S", "t", "r", "0", "n", "g", "#", "1">>
\* Eight lower-case letters.
WeakPW == <<"p", "a", "s", "s", "w", "o", "r", "d">>

NoFields == <<>>

CreateMobiles == {<<>>, M1, M8}
CreatePasswords == {None, <<>>, PW1, WeakPW}
CreateExtras == {NoFields, [is_active |-> FALSE]}
SuperuserMobiles == {M1}
SuperuserPasswords == {PW1, WeakPW}
SuperuserExtras == {NoFields, [is_staff |-> FALSE], [is_superuser |-> FALSE]}

LoginMobiles == {<<>>, M1, M2}
LoginPasswords == {<<>>, PW1, PW2}

RegisterMobiles == {M1, M8}
RegisterInputs ==
    {[mobile_number |-> m, password |-> pw[1], password2 |-> pw[2],
      cities |-> {1}, languages |-> {1}, work_images |-> {1}] :
        m \in RegisterMobiles, pw \in {<<PW1, PW1>>, <<PW1, PW2>>}}

NoData ==
    [mobile_number |-> None, password |-> None, password2 |-> None,
     cities |-> {}, languages |-> {}, work_images |-> {}]

NoResponse == [status |-> 0, user |-> NoUser, tokens |-> NoUser, errors |-> {}]

Idle == [pc |-> "idle", data |-> NoData, uid |-> 0]

\* The step just taken: the operation, its arguments, and how it ended.
Step(op, w, m, p, extra, out, uid, resp) ==
    [op |-> op, w |-> w, m |-> m, p |-> p, extra |-> extra, out |-> out,
     uid |-> uid, resp |-> resp]

\* ------------------------------------------------------------ the system

StoreInit ==
    /\ users = {}
    /\ nextId = 1
    /\ refs = [t \in Tables |-> {1}]
    /\ backend \in Backends
    /\ reg = [w \in Workers |-> Idle]
    /\ last = Step("none", 0, None, None, NoFields, "", 0, NoResponse)

Init ==
    /\ StoreInit
    /\ arg = None
    /\ ret = NotCalled

Room == Cardinality(users) < MaxUsers

CreateUser(m, p, extra) ==
    LET r == create_user(users, nextId, m, p, extra) IN
    /\ Room
    /\ users' = r.table
    /\ nextId' = IF r.out = "saved" THEN nextId + 1 ELSE nextId
    /\ last' = Step("create_user", 0, m, p, extra, r.out, r.uid, NoResponse)
    /\ UNCHANGED <<refs, backend, reg, arg, ret>>

CreateSuperuser(m, p, extra) ==
    LET r == create_superuser(users, nextId, m, p, extra) IN
    /\ Room
    /\ users' = r.table
    /\ nextId' = IF r.out = "saved" THEN nextId + 1 ELSE nextId
    /\ last' = Step("create_superuser", 0, m, p, extra, r.out, r.uid, NoResponse)
    /\ UNCHANGED <<refs, backend, reg, arg, ret>>

Login(m, p) ==
    /\ last' = Step("login", 0, m, p, NoFields, "", 0,
                    LoginView_post(users, backend, m, p))
    /\ UNCHANGED <<users, nextId, refs, backend, reg, arg, ret>>

\* A request arrives at worker w: is_valid() on its data.
RegisterSubmit(w, data) ==
    LET errors == RegisterSerializer_is_valid(users, refs, data) IN
    /\ reg[w].pc = "idle"
    /\ IF errors = {}
       THEN /\ reg' = [reg EXCEPT ![w] = [pc |-> "valid", data |-> data, uid |-> 0]]
            /\ last' = Step("register", w, data.mobile_number, data.password,
                            NoFields, "valid", 0, NoResponse)
       ELSE /\ reg' = reg
            /\ last' = Step("register", w, data.mobile_number, data.password,
                            NoFields, "invalid", 0,
                            [NoResponse EXCEPT !.status = 400, !.errors = errors])
    /\ UNCHANGED <<users, nextId, refs, backend, arg, ret>>

\* RegisterSerializer.create, statement by statement. An exception ends the
\* request: nothing in create() or around it catches one or undoes a write.
RegisterCreate(w) ==
    LET d == reg[w].data
        r == Insert(users, nextId, NewUser(d.mobile_number, NoFields))
    IN
    /\ reg[w].pc = "valid"
    /\ Room
    /\ users' = r.table
    /\ nextId' = IF r.out = "saved" THEN nextId + 1 ELSE nextId
    /\ reg' = [reg EXCEPT ![w] =
                  IF r.out = "saved" THEN [@ EXCEPT !.pc = "created", !.uid = r.uid]
                  ELSE Idle]
    /\ last' = Step("register", w, d.mobile_number, d.password, NoFields,
                    IF r.out = "saved" THEN "created" ELSE r.out, r.uid,
                    IF r.out = "saved" THEN NoResponse
                    ELSE [NoResponse EXCEPT !.status = 500])
    /\ UNCHANGED <<refs, backend, arg, ret>>

RegisterSetPassword(w) ==
    LET d == reg[w].data
        user == Row(users, reg[w].uid)
    IN
    /\ reg[w].pc = "created"
    /\ users' = Update(users, [user EXCEPT !.password = make_password(d.password)])
    /\ reg' = [reg EXCEPT ![w].pc = "saved"]
    /\ last' = Step("register", w, d.mobile_number, d.password, NoFields,
                    "password set", reg[w].uid, NoResponse)
    /\ UNCHANGED <<nextId, refs, backend, arg, ret>>

\* One of the three set() calls: from pc to next, or out with the exception.
RegisterSet(w, pc, next, field, related) ==
    LET d == reg[w].data
        r == SetRelated(users, refs, reg[w].uid, field, related, d[field])
    IN
    /\ reg[w].pc = pc
    /\ users' = r.table
    /\ reg' = [reg EXCEPT ![w] =
                  IF r.out = "set" /\ next # "done" THEN [@ EXCEPT !.pc = next]
                  ELSE Idle]
    /\ last' = Step("register", w, d.mobile_number, d.password, NoFields,
                    IF r.out = "set" THEN next ELSE r.out, reg[w].uid,
                    IF r.out # "set" THEN [NoResponse EXCEPT !.status = 500]
                    ELSE IF next = "done"
                         THEN [NoResponse EXCEPT !.status = 201, !.user = reg[w].uid]
                         ELSE NoResponse)
    /\ UNCHANGED <<nextId, refs, backend, arg, ret>>

RegisterSetCities(w) == RegisterSet(w, "saved", "cities", "cities", "City")

RegisterSetLanguages(w) ==
    RegisterSet(w, "cities", "languages", "languages", "Language")

RegisterSetWorkImages(w) ==
    RegisterSet(w, "languages", "done", "work_images", "WorkImage")

FieldOf(t) ==
    CASE t = "City" -> "cities" [] t = "Language" -> "languages"
      [] t = "WorkImage" -> "work_images"

\* An administrator deletes a row of a reference table.
DeleteReference(t, pk) ==
    /\ pk \in refs[t]
    /\ refs' = [refs EXCEPT ![t] = @ \ {pk}]
    /\ users' = DeleteRelated(users, FieldOf(t), pk)
    /\ last' = Step("delete", 0, None, None, NoFields, t, pk, NoResponse)
    /\ UNCHANGED <<nextId, backend, reg, arg, ret>>

\* The user manager and the login view.
Next ==
    \/ \E m \in CreateMobiles, p \in CreatePasswords, e \in CreateExtras :
          CreateUser(m, p, e)
    \/ \E m \in SuperuserMobiles, p \in SuperuserPasswords, e \in SuperuserExtras :
          CreateSuperuser(m, p, e)
    \/ \E m \in LoginMobiles, p \in LoginPasswords : Login(m, p)

Spec == Init /\ [][Next]_vars

\* Registration requests on two workers, beside create_user calls and an
\* administrator who deletes reference rows.
NextRegister ==
    \/ \E w \in Workers, d \in RegisterInputs : RegisterSubmit(w, d)
    \/ \E w \in Workers : RegisterCreate(w)
    \/ \E w \in Workers : RegisterSetPassword(w)
    \/ \E w \in Workers : RegisterSetCities(w)
    \/ \E w \in Workers : RegisterSetLanguages(w)
    \/ \E w \in Workers : RegisterSetWorkImages(w)
    \/ \E t \in Tables : DeleteReference(t, 1)
    \/ \E m \in RegisterMobiles : CreateUser(m, PW1, NoFields)

SpecRegister == Init /\ [][NextRegister]_vars

\* ------------------------------------------------------------ validator calls

MaxPad == 14
MaxCore == 3
MaxMajorLen == 3
MaxListLen == 12

\* Passwords: lower-case padding, then a few characters of every kind.
PasswordChars == {"A", "1", "!", "_", "U+018F", "U+0663"}
PasswordInputs ==
    {Repeat("a", n) \o core :
        n \in 0..MaxPad, core \in StringsUpTo(PasswordChars, MaxCore)}

InitPassword ==
    /\ StoreInit
    /\ arg \in PasswordInputs
    /\ ret = NotCalled

CallPassword ==
    /\ ret.err = "not called"
    /\ ret' = validate_password_strength(arg)
    /\ UNCHANGED <<users, nextId, refs, backend, reg, last, arg>>

SpecPassword == InitPassword /\ [][CallPassword]_vars

Orta == <<"O", "r", "t", "a">>
MajorChars == {"a", "U+018F", " ", "-", "1", "."}
MajorInputs ==
    [v : {None} \cup StringsUpTo(MajorChars, MaxMajorLen),
     values : {<<>>, [education |-> SENTINEL], [education |-> Orta]}]

InitMajor ==
    /\ StoreInit
    /\ arg \in MajorInputs
    /\ ret = NotCalled

CallMajor ==
    /\ ret.err = "not called"
    /\ ret' = validate_education_major(arg.v, arg.values)
    /\ UNCHANGED <<users, nextId, refs, backend, reg, last, arg>>

SpecMajor == InitMajor /\ [][CallMajor]_vars

GoodName == <<"a", ".", "j", "p", "g">>
FileNames ==
    {GoodName,
     <<"a", ".", "P", "N", "G">>,
     <<"A", ".", "J", "p", "g">>,
     <<"p", ".", "g", "i", "f">>,
     <<"a", ".", "j", "p", "e", "g">>,
     <<"a", ".", "j", "p", "g", ".", "g", "i", "f">>,
     <<"a", ".", "g", "i", "f", ".", "p", "n", "g">>,
     <<"a", ".", "j", "p", "g", ".">>,
     <<"a", ".", "j", "p", "g", "/", "b">>,
     <<"d", "/", ".", "p", "n", "g">>,
     <<".", "j", "p", "g">>,
     <<".", ".", "j", "p", "g">>,
     <<"j", "p", "g">>,
     <<>>}

\* n good names, with file f in place k (no place when k is 0).
Fill(n, k, f) == [i \in 1..n |-> IF i = k THEN f ELSE GoodName]

PortfolioInputs ==
    {NoneList} \cup {Fill(n, k, f) : n \in 0..MaxListLen, k \in 0..MaxListLen,
                                    f \in FileNames}

InitPortfolio ==
    /\ StoreInit
    /\ arg \in PortfolioInputs
    /\ ret = NotCalled

CallPortfolio ==
    /\ ret.err = "not called"
    /\ ret' = validate_portfolio_images(arg)
    /\ UNCHANGED <<users, nextId, refs, backend, reg, last, arg>>

SpecPortfolio == InitPortfolio /\ [][CallPortfolio]_vars

\* ------------------------------------------------------------ properties

Called == ret.err # "not called"

Stored(m) == {u \in users : u.mobile_number = m}

InvalidCredentials == {<<"non_field_errors", "wrong number or password">>}
AccountDisabled == {<<"non_field_errors", "account deactivated">>}

Failure(errors) ==
    [status |-> 400, user |-> NoUser, tokens |-> NoUser, errors |-> errors]

\* The outcome the four steps give, in their order: look the user up, verify
\* the password, check is_active, issue the tokens.
LoginSteps(m, p) ==
    IF Stored(m) = {} THEN Failure(InvalidCredentials)
    ELSE LET u == CHOOSE x \in Stored(m) : TRUE IN
         IF ~check_password(p, u.password) THEN Failure(InvalidCredentials)
         ELSE IF ~u.is_active THEN Failure(AccountDisabled)
         ELSE [status |-> 200, user |-> u.id, tokens |-> u.id, errors |-> {}]

\* C1: a login request that carries a mobile_number and a password gets the
\* outcome of the four steps in their order: InvalidCredentials for an unknown
\* number, InvalidCredentials for a wrong password, AccountDisabled for an
\* inactive user, else 200 with a token pair for that user; tokens in no other
\* case, and 400 for every failure.
C1_LoginStepsInOrder ==
    (last.op = "login" /\ last.m # <<>> /\ last.p # <<>>)
        => last.resp = LoginSteps(last.m, last.p)

\* C2: the response to a login with a stored mobile_number and a wrong password
\* is the response the same password gets with any mobile_number that belongs
\* to no user: the same status and the same body, the InvalidCredentials one
\* for a password that is not blank.
C2_SameFailedLoginResponse ==
    (/\ last.op = "login"
     /\ \E u \in Stored(last.m) : ~check_password(last.p, u.password))
        => /\ \A m2 \in LoginMobiles \ {<<>>} :
                Stored(m2) = {} =>
                    last.resp = LoginView_post(users, backend, m2, last.p)
           /\ last.p # <<>> => last.resp = Failure(InvalidCredentials)

\* A wrong password was tried on a stored, inactive user while another number
\* was unknown.
C2_Witness ==
    /\ last.op = "login" /\ last.m = M1 /\ last.p = PW2
    /\ \E u \in Stored(M1) : ~u.is_active /\ check_password(PW1, u.password)
    /\ Stored(M2) = {}
    /\ last.resp.status = 400

UniqueMobiles ==
    \A u1 \in users, u2 \in users :
        u1.mobile_number = u2.mobile_number => u1 = u2

\* The step tried to store a new user: a create_user call that passed its
\* checks, a registration at its validation or at its INSERT.
TriedToStore(l) ==
    \/ l.op = "create_user" /\ l.out \in {"saved", "IntegrityError:unique"}
    \/ l.op = "register"
          /\ l.out \in {"valid", "invalid", "created", "IntegrityError:unique"}

DuplicateIdentifier(l) ==
    \/ l.out = "IntegrityError:unique"
    \/ l.out = "invalid" /\ <<"mobile_number", "unique">> \in l.resp.errors

\* C3: no two stored users have the same mobile_number, and a step that tries
\* to store a user with a mobile_number that is already stored fails with
\* DuplicateIdentifier and leaves the user table as it was.
C3_UniqueMobileNumber ==
    /\ []UniqueMobiles
    /\ [][(TriedToStore(last') /\ Stored(last'.m) # {})
            => (DuplicateIdentifier(last') /\ users' = users)]_vars

\* Two registrations with one number both passed validation, and the INSERT of
\* the second was refused.
C3_Witness ==
    /\ last.op = "register" /\ last.out = "IntegrityError:unique"
    /\ \E u \in Stored(last.m) : u.password = UnsetPassword

\* C4: a registration that failed after its user row was written leaves no
\* user record of that request in the store.
C4_RegistrationAtomic ==
    (last.op = "register" /\ last.resp.status = 500 /\ last.uid # 0)
        => \A u \in users : u.id # last.uid

Chars(str) == {str[i] : i \in 1..Len(str)}

Strong(p) ==
    /\ Len(p) \in MinPasswordLen..MaxPasswordLen
    /\ Chars(p) \cap AsciiUpper # {}
    /\ Chars(p) \cap AsciiDigits # {}
    /\ Chars(p) \cap PasswordSymbols # {}

WeakPassword ==
    {"ValidationError:length", "ValidationError:uppercase",
     "ValidationError:digit", "ValidationError:symbol"}

\* C5: validate_password_strength(p) succeeds exactly when p has 8 to 15
\* characters, an upper-case ASCII letter, a digit and a symbol of the
\* punctuation set, and fails with WeakPassword otherwise.
C5_PasswordStrength ==
    Called => /\ ret.ok <=> Strong(arg)
              /\ ~ret.ok => ret.err \in WeakPassword

\* A password of the greatest length was accepted.
C5_Witness == Called /\ ret.ok /\ Len(arg) = MaxPasswordLen

CreateOps == {"create_user", "create_superuser"}

\* C6: a create_user call with an empty mobile_number fails with
\* MissingIdentifier (ValueError), one with a provided password that the
\* strength validator rejects fails with that validator's error, and neither
\* changes the user table; a call that stores a user passed both checks and
\* stored a credential made of the password, never the password.
C6_CreateUserWritesNothingOnFailure ==
    [][last'.op \in CreateOps =>
        LET m == last'.m
            p == last'.p
        IN  /\ falsy(m) => (last'.out = "ValueError" /\ users' = users)
            /\ (~falsy(m) /\ ~falsy(p) /\ ~Strong(p))
                  => (last'.out \in WeakPassword /\ users' = users)
            /\ users' # users
                  => /\ ~falsy(m) /\ (falsy(p) \/ Strong(p))
                     /\ \E u \in users' \ users :
                          /\ users' = users \cup {u}
                          /\ u.mobile_number = m
                          /\ u.password.kind \in {"hash", "unusable"}
                          /\ u.password.kind = "hash"
                                => (p # None /\ check_password(p, u.password))]_vars

\* A call with a weak password failed while a user was stored.
C6_Witness ==
    /\ last.op = "create_user" /\ last.out \in WeakPassword
    /\ last.m = M8 /\ Stored(M1) # {} /\ Stored(M8) = {}

NineDigits(m) == Len(m) = 9 /\ \A i \in 1..Len(m) : m[i] \in MobileRegexDigits

\* C7: every stored user has a mobile_number of exactly nine decimal digits.
C7_StoredMobileNineDigits == \A u \in users : NineDigits(u.mobile_number)

\* C8: for an input with a valid education: with an education other than the
\* sentinel, education_major is accepted exactly when it is given and passes
\* the alphabet check; with the sentinel it is accepted whatever it is.
C8_EducationMajor ==
    (Called /\ "education" \in DOMAIN arg.values) =>
        (ret.ok <=>
            \/ get(arg.values, "education") = SENTINEL
            \/ ~falsy(arg.v) /\ azerbaijani_letters_validator(arg.v))

\* File f ends, whatever the case, with extension e, after a name of its
\* last path component that is more than dots.
HasExtension(f, e) ==
    LET dot == Len(f) - Len(e) + 1 IN
    /\ dot >= 2
    /\ \A i \in 1..Len(e) : LowerChar(f[dot + i - 1]) = <<e[i]>>
    /\ \E j \in 1..(dot - 1) :
          /\ f[j] \notin {".", "/"}
          /\ \A i \in j..(dot - 1) : f[i] # "/"

AllowedImage(f) == \E e \in ALLOWED_IMAGE_EXTENSIONS : HasExtension(f, e)

\* C9: a list of more than 10 file names fails with TooMany; a list of at most
\* 10 succeeds exactly when every name has the extension .jpg or .png,
\* whatever the case, and fails with UnsupportedFormat otherwise.
C9_PortfolioImages ==
    (Called /\ arg # NoneList) =>
        IF Len(arg) > 10
        THEN ~ret.ok /\ ret.err = "ValueError:too_many"
        ELSE /\ ret.ok <=> \A i \in 1..Len(arg) : AllowedImage(arg[i])
             /\ ~ret.ok => ret.err = "ValueError:format"

\* Ten names, the last of them a .gif, were refused for the format.
C9_Witness ==
    /\ Called /\ arg # NoneList /\ Len(arg) = 10
    /\ ret.err = "ValueError:format"
    /\ ret.on = <<"p", ".", "g", "i", "f">>

\* C10: every user that create_superuser stores has is_staff and is_superuser
\* set, whatever arguments the caller passed.
C10_SuperuserFlags ==
    (last.op = "create_superuser" /\ last.out = "saved")
        => \A u \in users : u.id = last.uid => (u.is_staff /\ u.is_superuser)

====
